---- MODULE Spec2Model ----
(***************************************************************************)
(* A model of src/src/seemore/core.py: the tiled inference scheduler       *)
(* (SeemoReUpscaler.__call__ and SeemoReUpscaler.tile_inference), the      *)
(* sparse mixture-of-experts layer (MoELayer) and the state a SeemoRe      *)
(* instance keeps between forward calls.                                   *)
(***************************************************************************)
EXTENDS Integers, Sequences, FiniteSets, TLC

(***************************************************************************)
(* Bounds of the model.                                                    *)
(***************************************************************************)
MaxH == 17
MaxW == 34
MaxTile == 20
NegTile == 2
MaxNetH == 17
MaxNetW == 20
MaxExperts == 3
MaxTopK == 3
MaxBatch == 2
MaxFeat == 2
NCalls == 2

(***************************************************************************)
(* Program constants.                                                      *)
(***************************************************************************)
tile_pad == 12
recursive == 2
AggKernel == 4
num_experts == 3
topk == 1
Scales == {2, 3, 4}

(***************************************************************************)
(* Numbers stand for tensor values in fixed point.  A pixel of the input   *)
(* tensor (np_img / 255.0) is 0, 1 or 2 half-units, rgb_mean (0.4488, ...) *)
(* is the nearest half-unit, and a gate weight is a multiple of            *)
(* 1 / WeightUnit.                                                         *)
(***************************************************************************)
PixelDark == 0
PixelBright == 2
rgb_mean == 1
WeightUnit == 8

VARIABLES
    pc,         \* position of the running operation
    height,     \* y.shape[2]
    width,      \* y.shape[3]
    scale,      \* self.model.scale
    tile_size,  \* the tile_size argument
    y,          \* the input tensor, as the pattern its pixels follow
    tiles_x,    \* math.ceil(width / tile_size)
    tiles_y,    \* math.ceil(height / tile_size)
    y_idx,      \* outer loop variable of tile_inference
    x_idx,      \* inner loop variable of tile_inference
    calls,      \* the invocations self.model(...) made so far, in order
    output,     \* the slice assignments made to the zero output tensor, in order
    x_hat,      \* what the operation returned
    \* -- a MoEBlock / MoELayer and one forward call on it
    mpc,        \* "new", "built", "done" or "error"
    lr_space,   \* the lr_space argument of MoEBlock.__init__
    experts,    \* len(self.experts)
    num_expert, \* self.num_expert, the topk argument of MoEBlock.__init__
    training,   \* self.training
    tie,        \* the order torch.topk gives equal weights in this build
    inputs,     \* the feature of each batch item
    k,          \* the calibration value of each batch item
    out,        \* the tensor forward returned, a value per batch item
    evaluated,  \* the experts forward evaluated, in order
    \* -- a SeemoRe instance and the forward calls running on it
    mean,       \* self.mean: [dtype, val]
    fpc,        \* position of each forward call
    dtype,      \* dtype of each call's input x
    seen        \* the self.mean each call read at line 74 and at line 90

tileVars == <<pc, height, width, scale, tile_size, y, tiles_x, tiles_y, y_idx, x_idx,
              calls, output, x_hat>>
moeVars == <<mpc, lr_space, experts, num_expert, training, tie, inputs, k, out,
             evaluated>>
meanVars == <<mean, fpc, dtype, seen>>
vars == <<tileVars, moeVars, meanVars>>

Min(a, b) == IF a < b THEN a ELSE b
Max(a, b) == IF a > b THEN a ELSE b

(***************************************************************************)
(* math.ceil(a / b) for integers a >= 0 and b # 0 (Python true division).  *)
(***************************************************************************)
CeilDiv(a, b) ==
    IF b > 0 THEN (a + b - 1) \div b
    ELSE -(a \div (-b))

(***************************************************************************)
(* Python's slice a:b of a dimension of n elements, as the half-open range *)
(* <<lo, hi>> it selects: a negative index counts from the end, an index   *)
(* past the end is clipped, and a reversed range is empty.                 *)
(***************************************************************************)
SliceIndex(i, n) == IF i < 0 THEN Max(i + n, 0) ELSE Min(i, n)

Slice(a, b, n) ==
    LET lo == SliceIndex(a, n)
        hi == SliceIndex(b, n)
    IN <<lo, Max(lo, hi)>>

(***************************************************************************)
(* The size nn.Conv2d(kernel_size=4, stride=4) leaves of a side of n       *)
(* elements; -1 when the kernel is larger than the input and the           *)
(* convolution raises.  MoEBlock.calibrate applies it `recursive` times.   *)
(***************************************************************************)
AggConvSide(n) == IF n < AggKernel THEN -1 ELSE ((n - AggKernel) \div AggKernel) + 1

RECURSIVE CalibrateSide(_, _)
CalibrateSide(n, r) ==
    IF r = 0 \/ n < 0 THEN n ELSE CalibrateSide(AggConvSide(n), r - 1)

(***************************************************************************)
(* SeemoRe.forward raises on a tensor of h x w pixels when a side does not *)
(* survive the downsampling of MoEBlock.calibrate.                         *)
(***************************************************************************)
ForwardRaises(h, w) ==
    CalibrateSide(h, recursive) < 1 \/ CalibrateSide(w, recursive) < 1

(***************************************************************************)
(* The tile arithmetic of tile_inference, one operator per pair of lines   *)
(* (the x and the y line are the same expression).                         *)
(***************************************************************************)
\* Faulty variants of the bounds below, which the properties must tell apart
TileStart_Overlap(idx, ts) == idx * (ts - 1)
StartPad_NoClip(start) == start - tile_pad
StartValid_NoPad(start, start_pad, s) == start * s

TileStart(idx, ts) == idx * ts
TileEnd(start, ts, size) == Min(start + ts, size)
StartPad(start) == Max(start - tile_pad, 0)
EndPad(end, size) == Min(end + tile_pad, size)
OutStart(start, s) == start * s
OutEnd(end, s) == end * s
StartValid(start, start_pad, s) == (start - start_pad) * s
EndValid(start_valid, start, end, s) == start_valid + (end - start) * s

(***************************************************************************)
(* All the locals of one iteration of the loop body, for grid index        *)
(* (yi, xi) of an h x w image.                                             *)
(***************************************************************************)
TileLocals(yi, xi, ts, h, w, s) ==
    LET x_start == TileStart(xi, ts)
        y_start == TileStart(yi, ts)
        x_end == TileEnd(x_start, ts, w)
        y_end == TileEnd(y_start, ts, h)
        x_start_pad == StartPad(x_start)
        x_end_pad == EndPad(x_end, w)
        y_start_pad == StartPad(y_start)
        y_end_pad == EndPad(y_end, h)
        out_x_start_valid == StartValid(x_start, x_start_pad, s)
        out_y_start_valid == StartValid(y_start, y_start_pad, s)
    IN [x_start |-> x_start, y_start |-> y_start,
        x_end |-> x_end, y_end |-> y_end,
        x_start_pad |-> x_start_pad, x_end_pad |-> x_end_pad,
        y_start_pad |-> y_start_pad, y_end_pad |-> y_end_pad,
        out_x_start |-> OutStart(x_start, s), out_x_end |-> OutEnd(x_end, s),
        out_y_start |-> OutStart(y_start, s), out_y_end |-> OutEnd(y_end, s),
        out_x_start_valid |-> out_x_start_valid,
        out_x_end_valid |-> EndValid(out_x_start_valid, x_start, x_end, s),
        out_y_start_valid |-> out_y_start_valid,
        out_y_end_valid |-> EndValid(out_y_start_valid, y_start, y_end, s)]

(***************************************************************************)
(* y[:, :, a:b, c:d] of an h x w tensor: the rectangle of pixels selected. *)
(***************************************************************************)
Crop(ya, yb, xa, xb, h, w) ==
    LET ys == Slice(ya, yb, h)
        xs == Slice(xa, xb, w)
    IN [y0 |-> ys[1], y1 |-> ys[2], x0 |-> xs[1], x1 |-> xs[2]]

RectH(r) == r.y1 - r.y0
RectW(r) == r.x1 - r.x0
InRect(Y, X, r) == r.y0 <= Y /\ Y < r.y1 /\ r.x0 <= X /\ X < r.x1

(***************************************************************************)
(* A slice assignment dst = src needs src to broadcast to dst: per         *)
(* dimension the sizes are equal or src has size 1.                        *)
(***************************************************************************)
Broadcasts(src, dst) ==
    /\ (RectH(src) = RectH(dst) \/ RectH(src) = 1)
    /\ (RectW(src) = RectW(dst) \/ RectW(src) = 1)

(***************************************************************************)
(* The gate and the experts of MoELayer on fixed-point numbers.            *)
(* Expert indices are 0 .. N-1 as in the source.                           *)
(***************************************************************************)
RECURSIVE Pow2(_)
Pow2(n) == IF n <= 0 THEN 1 ELSE 2 * Pow2(n - 1)

RECURSIVE SumFn(_, _)
SumFn(f, n) == IF n = 0 THEN 0 ELSE f[n - 1] + SumFn(f, n - 1)

MinFn(f, n) == CHOOSE m \in {f[i] : i \in 0..(n - 1)} : \A i \in 0..(n - 1) : m <= f[i]

(***************************************************************************)
(* grow_func of MoEBlock.__init__: the bottleneck width of expert i.       *)
(***************************************************************************)
GrowFunc(lr, i) ==
    CASE lr = "linear" -> i + 2
      [] lr = "exp" -> Pow2(i + 1)
      [] lr = "double" -> 2 * i + 2

(***************************************************************************)
(* Expert.forward on one feature x with calibration value kv:              *)
(* conv_3(conv_2(kv) * conv_1(x)) with unit weights sums low_dim products. *)
(***************************************************************************)
Expert(lr, i, x, kv) == GrowFunc(lr, i) * (kv * x)

(***************************************************************************)
(* Router: the Linear layer (no bias) applied to the pooled feature; row i *)
(* of its weight is 1 - i.                                                 *)
(***************************************************************************)
GateW(i) == 1 - i
Router(pooled, N) == [i \in 0..(N - 1) |-> GateW(i) * pooled]

(***************************************************************************)
(* F.softmax(out, dim=1): positive, order preserving, invariant under a    *)
(* shift of the scores, summing to at most one WeightUnit.                 *)
(***************************************************************************)
Softmax(scores, N) ==
    LET m == MinFn(scores, N)
        e == [i \in 0..(N - 1) |-> Pow2(scores[i] - m)]
        total == SumFn(e, N)
    IN [i \in 0..(N - 1) |-> (e[i] * WeightUnit) \div total]

(***************************************************************************)
(* torch.topk(weights, K): the indices of the K largest weights, largest   *)
(* first.  The order among equal weights is the build's: "low" puts the    *)
(* lower index first, "high" the higher.                                   *)
(***************************************************************************)
Better(weights, order, i, j) ==
    \/ weights[i] > weights[j]
    \/ weights[i] = weights[j] /\ (IF order = "low" THEN i <= j ELSE i >= j)

RECURSIVE TopKFrom(_, _, _, _)
TopKFrom(weights, order, S, K) ==
    IF K = 0 \/ S = {} THEN <<>>
    ELSE LET b == CHOOSE i \in S : \A j \in S : Better(weights, order, i, j)
         IN <<b>> \o TopKFrom(weights, order, S \ {b}, K - 1)

TopK(weights, N, K, order) == TopKFrom(weights, order, 0..(N - 1), K)

(***************************************************************************)
(* The sum the inference loop adds to out for one batch item: expert       *)
(* sel[j] weighted by wts[j], lines 302-303.                               *)
(***************************************************************************)
ExpertSum(lr, sel, wts, x, kv) ==
    SumFn([j \in 0..(Len(sel) - 1) |-> Expert(lr, sel[j + 1], x, kv) * wts[j + 1]],
          Len(sel))

(***************************************************************************)
(* The network on the pixels rect of the input tensor img, reduced to one  *)
(* channel and one ResGroup: what SeemoRe.forward computes from the tensor *)
(* it is given and nothing else.                                           *)
(***************************************************************************)
HalfImage(w) == [split |-> w \div 2, left |-> PixelBright, right |-> PixelDark]

Images(w) ==
    {[split |-> sp, left |-> l, right |-> r] :
        sp \in {0, w \div 2}, l \in {PixelBright}, r \in {PixelDark}}
    \cup {[split |-> sp, left |-> l, right |-> r] :
        sp \in {0, w \div 2}, l \in {PixelDark}, r \in {PixelBright}}

Pixel(img, r, c) == IF c < img.split THEN img.left ELSE img.right

\* x = (x - self.mean) * self.img_range, line 74, then conv_1 (3x3, padding=1):
\* a tap outside the tensor reads the zero padding
Tap(img, rect, r, c) ==
    IF InRect(rect.y0 + r, rect.x0 + c, rect)
    THEN Pixel(img, rect.y0 + r, rect.x0 + c) - rgb_mean
    ELSE 0

Conv1(img, rect, r, c) ==
    Tap(img, rect, r - 1, c - 1) + Tap(img, rect, r - 1, c) + Tap(img, rect, r - 1, c + 1)
    + Tap(img, rect, r, c - 1) + Tap(img, rect, r, c) + Tap(img, rect, r, c + 1)
    + Tap(img, rect, r + 1, c - 1) + Tap(img, rect, r + 1, c) + Tap(img, rect, r + 1, c + 1)

\* nn.AdaptiveAvgPool2d(1) of the Router: the mean over the whole tensor
AvgPool(F, h, w) ==
    LET rows == [r \in 0..(h - 1) |-> SumFn([c \in 0..(w - 1) |-> F[r, c]], w)]
    IN SumFn(rows, h) \div (h * w)

\* MoELayer.forward in inference mode on a batch of one, lines 290-305
MoEPixel(x, sel, weights) ==
    x * WeightUnit
    + ExpertSum("exp", sel, [j \in 1..Len(sel) |-> weights[sel[j]]], x, x)

\* the upsampler: a convolution to scale^2 channels, then nn.PixelShuffle
PixelShuffle(M, s, Y, X) ==
    LET ch == (Y % s) * s + (X % s)
    IN (ch + 1) * M[Y \div s, X \div s]

Forward(img, rect, s) ==
    LET h == RectH(rect)
        w == RectW(rect)
        \* (f @@ <<>> is f: it only makes TLC tabulate the feature map once)
        F == [r \in 0..(h - 1), c \in 0..(w - 1) |-> Conv1(img, rect, r, c)] @@ <<>>
        weights == Softmax(Router(AvgPool(F, h, w), num_experts), num_experts)
        sel == TopK(weights, num_experts, topk, "low")
        M == [r \in 0..(h - 1), c \in 0..(w - 1) |-> MoEPixel(F[r, c], sel, weights)] @@ <<>>
    IN [Y \in 0..(h * s - 1), X \in 0..(w * s - 1) |->
           PixelShuffle(M, s, Y, X) + rgb_mean * WeightUnit]

(***************************************************************************)
(* The parts of the state an operation on another object leaves alone.     *)
(***************************************************************************)
NoUpscaler ==
    /\ pc = "idle" /\ height = 0 /\ width = 0 /\ scale = 0 /\ tile_size = 0
    /\ y = <<>> /\ tiles_x = 0 /\ tiles_y = 0 /\ y_idx = 0 /\ x_idx = 0
    /\ calls = <<>> /\ output = <<>> /\ x_hat = "none"

NoLayer ==
    /\ mpc = "idle" /\ lr_space = "" /\ experts = 0 /\ num_expert = 0
    /\ training = FALSE /\ tie = "" /\ inputs = <<>> /\ k = <<>> /\ out = <<>>
    /\ evaluated = <<>>

NoModel ==
    /\ mean = <<>> /\ fpc = <<>> /\ dtype = <<>> /\ seen = <<>>

(***************************************************************************)
(* The state when __call__ or tile_inference is entered on an h x w input  *)
(* tensor img with a tile size ts.                                         *)
(***************************************************************************)
Entry(h, w, s, ts, img) ==
    /\ pc \in {"call", "tile_inference"}
    /\ height = h
    /\ width = w
    /\ scale = s
    /\ tile_size = ts
    /\ y = img
    /\ tiles_x = 0
    /\ tiles_y = 0
    /\ y_idx = 0
    /\ x_idx = 0
    /\ calls = <<>>
    /\ output = <<>>
    /\ x_hat = "none"
    /\ NoLayer
    /\ NoModel

Init ==
    \E h \in 1..MaxH, w \in 1..MaxW, s \in Scales, ts \in (-NegTile)..MaxTile :
        Entry(h, w, s, ts, HalfImage(w))

InitNet ==
    \E h \in 1..MaxNetH, w \in 1..MaxNetW, s \in Scales, ts \in (-NegTile)..MaxTile :
        \E img \in Images(w) : Entry(h, w, s, ts, img)

(***************************************************************************)
(* SeemoReUpscaler.__call__, lines 529-532: the tiled path is taken for a  *)
(* positive tile_size and the whole-image path otherwise.                  *)
(***************************************************************************)
Call ==
    /\ UNCHANGED <<moeVars, meanVars>>
    /\ pc = "call"
    /\ pc' = IF tile_size > 0 THEN "tile_inference" ELSE "model"
    /\ UNCHANGED <<height, width, scale, tile_size, y, tiles_x, tiles_y, y_idx,
                   x_idx, calls, output, x_hat>>

(***************************************************************************)
(* x_hat = self.model(y), line 532: one invocation on the whole image.     *)
(***************************************************************************)
ModelWhole ==
    /\ UNCHANGED <<moeVars, meanVars>>
    /\ pc = "model"
    /\ calls' = Append(calls, [yi |-> 0, xi |-> 0,
                               rect |-> Crop(0, height, 0, width, height, width)])
    /\ IF ForwardRaises(height, width)
       THEN pc' = "error" /\ x_hat' = x_hat
       ELSE pc' = "done" /\ x_hat' = "model"
    /\ UNCHANGED <<height, width, scale, tile_size, y, tiles_x, tiles_y, y_idx,
                   x_idx, output>>

(***************************************************************************)
(* tile_inference, lines 566-579: the zero output tensor and the grid.     *)
(* width / 0 raises ZeroDivisionError; a range() of a count <= 0 is empty. *)
(***************************************************************************)
TileBegin ==
    /\ UNCHANGED <<moeVars, meanVars>>
    /\ pc = "tile_inference"
    /\ IF tile_size = 0
       THEN pc' = "error" /\ UNCHANGED <<tiles_x, tiles_y>>
       ELSE /\ tiles_x' = CeilDiv(width, tile_size)
            /\ tiles_y' = CeilDiv(height, tile_size)
            /\ pc' = IF tiles_x' > 0 /\ tiles_y' > 0 THEN "loop" ELSE "return"
    /\ UNCHANGED <<height, width, scale, tile_size, y, y_idx, x_idx, calls,
                   output, x_hat>>

(***************************************************************************)
(* One iteration of the loop body, lines 582-626.                          *)
(***************************************************************************)
TileStep ==
    /\ UNCHANGED <<moeVars, meanVars>>
    /\ pc = "loop"
    /\ LET t == TileLocals(y_idx, x_idx, tile_size, height, width, scale)
           tile == Crop(t.y_start_pad, t.y_end_pad, t.x_start_pad, t.x_end_pad,
                        height, width)
           oh == RectH(tile) * scale
           ow == RectW(tile) * scale
           dst == Crop(t.out_y_start, t.out_y_end, t.out_x_start, t.out_x_end,
                       height * scale, width * scale)
           src == Crop(t.out_y_start_valid, t.out_y_end_valid,
                       t.out_x_start_valid, t.out_x_end_valid, oh, ow)
           last == x_idx + 1 >= tiles_x /\ y_idx + 1 >= tiles_y
       IN /\ calls' = Append(calls, [yi |-> y_idx, xi |-> x_idx, rect |-> tile])
          /\ IF ForwardRaises(RectH(tile), RectW(tile)) \/ ~Broadcasts(src, dst)
             THEN /\ pc' = "error"
                  /\ UNCHANGED <<output, y_idx, x_idx>>
             ELSE /\ output' = Append(output, [call |-> Len(calls) + 1,
                                               dst |-> dst, src |-> src])
                  /\ x_idx' = IF x_idx + 1 < tiles_x THEN x_idx + 1 ELSE 0
                  /\ y_idx' = IF x_idx + 1 < tiles_x THEN y_idx ELSE y_idx + 1
                  /\ pc' = IF last THEN "return" ELSE "loop"
    /\ UNCHANGED <<height, width, scale, tile_size, y, tiles_x, tiles_y, x_hat>>

(***************************************************************************)
(* return output, line 628.                                                *)
(***************************************************************************)
TileReturn ==
    /\ UNCHANGED <<moeVars, meanVars>>
    /\ pc = "return"
    /\ pc' = "done"
    /\ x_hat' = "output"
    /\ UNCHANGED <<height, width, scale, tile_size, y, tiles_x, tiles_y, y_idx,
                   x_idx, calls, output>>

Next == Call \/ ModelWhole \/ TileBegin \/ TileStep \/ TileReturn

Spec == Init /\ [][Next]_vars

SpecNet == InitNet /\ [][Next]_vars

(***************************************************************************)
(* MoELayer.forward, lines 289-305, on a batch of Len(xs) items, each a    *)
(* feature xs[b] with calibration value ks[b], for a layer of N experts    *)
(* with self.num_expert = K.  The result is what the call returns, or      *)
(* Raised when a line of it raises.                                        *)
(***************************************************************************)
Raised == [status |-> "error", out |-> <<>>, evaluated |-> <<>>]

MoELayerForward(tr, xs, ks, N, K, lr, order) ==
    LET B == Len(xs)
        \* lines 290-293
        weights == [b \in 1..B |-> Softmax(Router(xs[b], N), N)]
        topk_experts == [b \in 1..B |-> TopK(weights[b], N, K, order)]
        topk_weights == [b \in 1..B |->
                            [j \in 1..K |-> weights[b][topk_experts[b][j]]]]
        clone == [b \in 1..B |-> xs[b] * WeightUnit]
        \* lines 296-299: zeros, the top-k weights scattered in, every expert
        exp_weights == [b \in 1..B |-> [i \in 0..(N - 1) |->
                           IF \E j \in 1..K : topk_experts[b][j] = i
                           THEN weights[b][i] ELSE 0]]
        dense == [b \in 1..B |-> clone[b]
                     + SumFn([i \in 0..(N - 1) |->
                                 Expert(lr, i, xs[b], ks[b]) * exp_weights[b][i]], N)]
        \* line 301: iterating topk_experts.squeeze(dim=0) gives the K entries
        \* of the one row when B = 1 and the B rows, of K entries each, otherwise;
        \* self.experts[i] takes a tensor i of a single element only
        rows == IF B = 1 THEN [j \in 1..K |-> <<topk_experts[1][j]>>]
                ELSE topk_experts
        indexable == \A r \in 1..Len(rows) : Len(rows[r]) = 1
        selected_experts == [r \in 1..Len(rows) |-> rows[r][1]]
        \* lines 302-303: topk_weights[:, i:i+1] is empty from i = K on, and
        \* the product with it raises
        sliceable == Len(selected_experts) <= K
        sparse == [b \in 1..B |-> clone[b]
                      + ExpertSum(lr, selected_experts, topk_weights[b], xs[b], ks[b])]
    IN IF K > N THEN Raised
       ELSE IF tr
       THEN [status |-> "ok", out |-> dense, evaluated |-> [i \in 1..N |-> i - 1]]
       ELSE IF ~indexable \/ ~sliceable THEN Raised
       ELSE [status |-> "ok", out |-> sparse, evaluated |-> selected_experts]

LrSpaces == {"linear", "exp", "double"}
Feats == (-MaxFeat)..MaxFeat

(***************************************************************************)
(* The arguments of MoEBlock(in_ch, num_experts, topk, lr_space=...); "1"  *)
(* is the default SeemoRe.__init__ passes on (lr_space: int = 1).          *)
(***************************************************************************)
InitMoE ==
    /\ NoUpscaler
    /\ NoModel
    /\ mpc = "new"
    /\ lr_space \in LrSpaces \cup {"1"}
    /\ experts \in 0..MaxExperts
    /\ num_expert \in 1..MaxTopK
    /\ tie \in {"low", "high"}
    /\ training = FALSE
    /\ inputs = <<>> /\ k = <<>> /\ out = <<>> /\ evaluated = <<>>

(***************************************************************************)
(* MoEBlock.__init__, lines 237-252, and MoELayer.__init__, lines 282-287. *)
(***************************************************************************)
Construct ==
    /\ mpc = "new"
    /\ IF lr_space \notin LrSpaces \/ ~(experts > 0)
       THEN mpc' = "error" /\ UNCHANGED training
       ELSE mpc' = "built" /\ training' = TRUE
    /\ UNCHANGED <<lr_space, experts, num_expert, tie, inputs, k, out, evaluated>>
    /\ UNCHANGED <<tileVars, meanVars>>

(***************************************************************************)
(* nn.Module.eval() on the layer: self.training, read at line 295.         *)
(***************************************************************************)
Eval ==
    /\ mpc = "built"
    /\ training
    /\ training' = FALSE
    /\ UNCHANGED <<mpc, lr_space, experts, num_expert, tie, inputs, k, out, evaluated>>
    /\ UNCHANGED <<tileVars, meanVars>>

MoEForward ==
    /\ mpc = "built"
    /\ \E B \in 1..MaxBatch :
          \E xs \in [1..B -> Feats], ks \in [1..B -> Feats] :
             LET r == MoELayerForward(training, xs, ks, experts, num_expert,
                                      lr_space, tie)
             IN /\ inputs' = xs
                /\ k' = ks
                /\ mpc' = IF r.status = "ok" THEN "done" ELSE "raised"
                /\ out' = r.out
                /\ evaluated' = r.evaluated
    /\ UNCHANGED <<lr_space, experts, num_expert, training, tie>>
    /\ UNCHANGED <<tileVars, meanVars>>

NextMoE == Construct \/ Eval \/ MoEForward

SpecMoE == InitMoE /\ [][NextMoE]_vars

(***************************************************************************)
(* self.mean of a SeemoRe instance and the forward calls that use it.      *)
(* A value is a whole number of float32 ulps of [0.25, 0.5), 2^-25;        *)
(* float16 has 13 bits less and rounds to nearest, ties to even.           *)
(***************************************************************************)
Dtypes == {"float32", "float16"}
rgb_mean_f32 == <<15059229, 14666642, 13555991>>
Mean0 == [dtype |-> "float32", val |-> rgb_mean_f32]

RoundToHalf(v) ==
    LET ulp == Pow2(13)
        q == v \div ulp
        r == v % ulp
    IN IF 2 * r > ulp \/ (2 * r = ulp /\ q % 2 = 1) THEN (q + 1) * ulp ELSE q * ulp

\* Tensor.type_as(x): the same tensor when the dtype is x's, else a converted copy
TypeAs(m, d) ==
    IF m.dtype = d THEN m
    ELSE IF d = "float16"
    THEN [dtype |-> d, val |-> [c \in 1..3 |-> RoundToHalf(m.val[c])]]
    ELSE [dtype |-> d, val |-> m.val]

\* the dtype of x - self.mean
Promote(a, b) == IF a = "float32" \/ b = "float32" THEN "float32" ELSE "float16"

InitMean ==
    /\ NoUpscaler
    /\ NoLayer
    /\ mean = Mean0
    /\ fpc = [t \in 1..NCalls |-> "idle"]
    /\ dtype \in [1..NCalls -> Dtypes]
    /\ seen = [t \in 1..NCalls |-> <<>>]

\* self.mean = self.mean.type_as(x), line 73
FwdCast(t) ==
    /\ fpc[t] = "idle"
    /\ mean' = TypeAs(mean, dtype[t])
    /\ fpc' = [fpc EXCEPT ![t] = "sub"]
    /\ UNCHANGED <<dtype, seen>>
    /\ UNCHANGED <<tileVars, moeVars>>

\* x = (x - self.mean) * self.img_range, line 74
FwdSub(t) ==
    /\ fpc[t] = "sub"
    /\ seen' = [seen EXCEPT ![t] = Append(@, mean)]
    /\ fpc' = [fpc EXCEPT ![t] = "body"]
    /\ UNCHANGED <<mean, dtype>>
    /\ UNCHANGED <<tileVars, moeVars>>

\* lines 77-88: conv_1, whose weight is float32, raises on an x of another dtype
FwdBody(t) ==
    /\ fpc[t] = "body"
    /\ fpc' = [fpc EXCEPT ![t] =
                  IF Promote(dtype[t], seen[t][1].dtype) = "float32"
                  THEN "add" ELSE "raised"]
    /\ UNCHANGED <<mean, dtype, seen>>
    /\ UNCHANGED <<tileVars, moeVars>>

\* x = x / self.img_range + self.mean, lines 90-91
FwdAdd(t) ==
    /\ fpc[t] = "add"
    /\ seen' = [seen EXCEPT ![t] = Append(@, mean)]
    /\ fpc' = [fpc EXCEPT ![t] = "done"]
    /\ UNCHANGED <<mean, dtype>>
    /\ UNCHANGED <<tileVars, moeVars>>

NextMean == \E t \in 1..NCalls : FwdCast(t) \/ FwdSub(t) \/ FwdBody(t) \/ FwdAdd(t)

SpecMean == InitMean /\ [][NextMean]_vars

(***************************************************************************)
(* The contents of the output tensor: zero (y.new_zeros) where no slice    *)
(* assignment reached, otherwise what the last assignment that covers the  *)
(* pixel put there.  An assignment copies the source rectangle of the      *)
(* tile's output element by element (a source side of one is broadcast).   *)
(***************************************************************************)
FullRect == [y0 |-> 0, y1 |-> height, x0 |-> 0, x1 |-> width]
OutRows == 0..(height * scale - 1)
OutCols == 0..(width * scale - 1)

WritesAt(Y, X) == {i \in 1..Len(output) : InRect(Y, X, output[i].dst)}

LastWrite(Y, X) ==
    LET S == WritesAt(Y, X)
    IN IF S = {} THEN 0 ELSE CHOOSE i \in S : \A j \in S : j <= i

SrcPixel(wr, Y, X) ==
    <<wr.src.y0 + (IF RectH(wr.src) = RectH(wr.dst) THEN Y - wr.dst.y0 ELSE 0),
      wr.src.x0 + (IF RectW(wr.src) = RectW(wr.dst) THEN X - wr.dst.x0 ELSE 0)>>

OutputIs(G) ==
    /\ \A Y \in OutRows, X \in OutCols : WritesAt(Y, X) = {} => G[Y, X] = 0
    /\ \A i \in 1..Len(output) :
          LET wr == output[i]
              output_tile == Forward(y, calls[wr.call].rect, scale)
          IN \A Y \in (wr.dst.y0)..(wr.dst.y1 - 1), X \in (wr.dst.x0)..(wr.dst.x1 - 1) :
                LastWrite(Y, X) = i =>
                    G[Y, X] = output_tile[SrcPixel(wr, Y, X)[1], SrcPixel(wr, Y, X)[2]]

Returned == pc = "done"

(***************************************************************************)
(* C1.  After tile_inference has run over all tiles of an H x W input      *)
(* with a tile_size >= 1, every pixel of the (H*scale) x (W*scale) output  *)
(* lies in the destination rectangle of exactly one slice assignment, and  *)
(* that rectangle is [y_start*scale, y_end*scale) x                        *)
(* [x_start*scale, x_end*scale) of a tile of the grid.                     *)
(***************************************************************************)
C1_ExactCover ==
    (Returned /\ x_hat = "output" /\ tile_size >= 1) =>
        /\ \A Y \in OutRows, X \in OutCols : Cardinality(WritesAt(Y, X)) = 1
        /\ \A i \in 1..Len(output) :
              LET c == calls[output[i].call]
              IN output[i].dst =
                    [y0 |-> c.yi * tile_size * scale,
                     y1 |-> Min(c.yi * tile_size + tile_size, height) * scale,
                     x0 |-> c.xi * tile_size * scale,
                     x1 |-> Min(c.xi * tile_size + tile_size, width) * scale]

C1_Witness ==
    /\ Returned /\ x_hat = "output"
    /\ tiles_x >= 3 /\ tiles_y >= 2
    /\ Len(output) = tiles_x * tiles_y
    /\ \E n \in 1..Len(calls) : calls[n].rect # FullRect

(***************************************************************************)
(* C9.  Every slice assignment reads, from the output of the padded tile,  *)
(* the rectangle that starts at ((y_start - y_start_pad) * scale,          *)
(* (x_start - x_start_pad) * scale) and has the size of the unpadded tile  *)
(* times scale; the rectangle lies inside the tile's output and has the    *)
(* shape of the destination, so output pixel (Y, X) receives the tile      *)
(* output pixel (Y - y_start_pad * scale, X - x_start_pad * scale).        *)
(* Stated of the latest assignment: each one is the latest in the state    *)
(* that follows it.                                                        *)
(***************************************************************************)
C9_ValidRegionAligned ==
    \A i \in {Len(output)} \ {0} :
        LET wr == output[i]
            c == calls[wr.call]
            ys == c.yi * tile_size
            xs == c.xi * tile_size
            ye == Min(ys + tile_size, height)
            xe == Min(xs + tile_size, width)
        IN /\ wr.src.y0 = (ys - c.rect.y0) * scale
           /\ wr.src.x0 = (xs - c.rect.x0) * scale
           /\ RectH(wr.src) = (ye - ys) * scale
           /\ RectW(wr.src) = (xe - xs) * scale
           /\ wr.src.y1 <= RectH(c.rect) * scale
           /\ wr.src.x1 <= RectW(c.rect) * scale
           /\ RectH(wr.src) = RectH(wr.dst)
           /\ RectW(wr.src) = RectW(wr.dst)
           /\ wr.dst.y0 = ys * scale /\ wr.dst.x0 = xs * scale
           /\ \A Y \in (wr.dst.y0)..(wr.dst.y1 - 1), X \in (wr.dst.x0)..(wr.dst.x1 - 1) :
                 SrcPixel(wr, Y, X) = <<Y - c.rect.y0 * scale, X - c.rect.x0 * scale>>

C9_Witness ==
    \E i \in 1..Len(output) :
        LET wr == output[i]
            c == calls[wr.call]
        IN /\ c.rect.x0 > 0 /\ c.rect.x1 < width
           /\ wr.src.x0 = tile_pad * scale /\ wr.src.y0 > 0
           /\ wr.src.x1 < RectW(c.rect) * scale

(***************************************************************************)
(* C4.  With tile_size >= H and tile_size >= W the scheduler makes exactly *)
(* one network invocation, on the whole unmodified image; it fails exactly *)
(* when model(x) fails, and otherwise its one slice assignment copies the  *)
(* whole tile output to the whole output, so that the returned tensor is   *)
(* the result of model(x).                                                 *)
(***************************************************************************)
C4_SingleTileIsForward ==
    (tile_size >= height /\ tile_size >= width /\ pc \in {"done", "error"}) =>
        /\ Len(calls) = 1
        /\ calls[1].rect = FullRect
        /\ (pc = "error") = ForwardRaises(height, width)
        /\ pc = "done" =>
              /\ x_hat = "output"
              /\ Len(output) = 1
              /\ output[1].src = [y0 |-> 0, y1 |-> height * scale,
                                  x0 |-> 0, x1 |-> width * scale]
              /\ output[1].dst = output[1].src
              /\ OutputIs(Forward(y, FullRect, scale))

C4_Witness ==
    /\ pc = "done" /\ x_hat = "output"
    /\ tile_size >= height /\ tile_size >= width
    /\ height > tile_pad /\ width > height
    /\ y.split > 0

(***************************************************************************)
(* C2 (as claimed).  For every image and every tile_size >= 1 the tensor   *)
(* tile_inference returns equals the whole-image result model(x).          *)
(***************************************************************************)
C2_TiledEqualsForward ==
    (pc = "done" /\ x_hat = "output" /\ tile_size >= 1) =>
        OutputIs(Forward(y, FullRect, scale))

(***************************************************************************)
(* C3 (as claimed).  With tile_size <= 0 neither __call__ nor              *)
(* tile_inference returns an output image.                                 *)
(***************************************************************************)
C3_NonPositiveTileSizeRejected ==
    tile_size <= 0 => pc # "done"

(***************************************************************************)
(* C8 (as claimed), for the inputs whole-image inference accepts.  When    *)
(* tile_inference has ended on an H x W input with a tile_size >= 1, it    *)
(* has invoked the network ceil(W/tile_size) * ceil(H/tile_size) times,    *)
(* and the invocation for the tile [x_start, x_end) x [y_start, y_end)     *)
(* received [max(x_start-12, 0), min(x_end+12, W)) x                       *)
(* [max(y_start-12, 0), min(y_end+12, H)).                                 *)
(***************************************************************************)
C8_OneInvocationPerGridTile ==
    (tile_size >= 1 /\ pc \in {"done", "error"} /\ ~ForwardRaises(height, width)) =>
        /\ Len(calls) = CeilDiv(width, tile_size) * CeilDiv(height, tile_size)
        /\ \A n \in 1..Len(calls) :
              LET ys == calls[n].yi * tile_size
                  xs == calls[n].xi * tile_size
                  ye == Min(ys + tile_size, height)
                  xe == Min(xs + tile_size, width)
              IN calls[n].rect = [y0 |-> Max(ys - 12, 0), y1 |-> Min(ye + 12, height),
                                  x0 |-> Max(xs - 12, 0), x1 |-> Min(xe + 12, width)]

(***************************************************************************)
(* C5 (as claimed).  In inference mode, forward on a batch returns, for    *)
(* every batch item b, the output forward returns for b passed alone.      *)
(***************************************************************************)
C5_NoCrossBatchInteraction ==
    (mpc \in {"done", "raised"} /\ ~training /\ num_expert <= experts) =>
        /\ mpc = "done"
        /\ \A b \in 1..Len(inputs) :
              LET alone == MoELayerForward(FALSE, <<inputs[b]>>, <<k[b]>>, experts,
                                           num_expert, lr_space, tie)
              IN alone.status = "ok" /\ out[b] = alone.out[1]

(***************************************************************************)
(* C7 (as claimed).  No MoEBlock is constructed with topk greater than     *)
(* the number of experts.                                                  *)
(***************************************************************************)
C7_TopKRejectedAtConstruction ==
    mpc \in {"built", "done", "raised"} => num_expert <= experts

(***************************************************************************)
(* C10 (as claimed).  On the same inputs the sparse inference-mode path    *)
(* and the dense training-mode path return the same output, the first      *)
(* evaluating exactly num_expert experts and the second all of them.       *)
(***************************************************************************)
C10_SparseEqualsDense ==
    (mpc \in {"done", "raised"} /\ num_expert <= experts) =>
        LET other == MoELayerForward(~training, inputs, k, experts, num_expert,
                                     lr_space, tie)
        IN /\ mpc = "done"
           /\ other.status = "ok"
           /\ out = other.out
           /\ Len(evaluated) = (IF training THEN experts ELSE num_expert)
           /\ Len(other.evaluated) = (IF training THEN num_expert ELSE experts)

(***************************************************************************)
(* C6 (as claimed).  forward leaves the model as it found it: every call   *)
(* reads the self.mean it would read when run alone, and when all calls    *)
(* have ended self.mean is what it was before them.                        *)
(***************************************************************************)
C6_ModelReadOnly ==
    /\ \A t \in DOMAIN seen : \A j \in 1..Len(seen[t]) :
          seen[t][j] = TypeAs(Mean0, dtype[t])
    /\ (fpc # <<>> /\ \A t \in DOMAIN fpc : fpc[t] \in {"done", "raised"}) =>
          mean = Mean0

(***************************************************************************)
(* C11 (as claimed).  On an image of H >= 16 and W >= 16, which            *)
(* whole-image inference accepts, and with a tile_size >= 1, every padded  *)
(* tile tile_inference passes to the network has height >= 16 and          *)
(* width >= 16, and no tile invocation fails.                              *)
(***************************************************************************)
C11_PaddedTileLargeEnough ==
    (tile_size >= 1 /\ height >= 16 /\ width >= 16) =>
        /\ ~ForwardRaises(height, width)
        /\ \A n \in 1..Len(calls) :
              /\ RectH(calls[n].rect) >= 16
              /\ RectW(calls[n].rect) >= 16
              /\ ~ForwardRaises(RectH(calls[n].rect), RectW(calls[n].rect))
        /\ pc # "error"

====
